---- MODULE Spec2Model ----
(***************************************************************************)
(* Model of the Tektronix TBS 2000B driver                                 *)
(* (pymeasure/instruments/tektronix/tbs2000b.py) and of the discovery and  *)
(* convention harness (tests/instruments/test_all_instruments.py).         *)
(*                                                                         *)
(* Python strings are sequences of one-character strings, so that split,   *)
(* indexing and int() are computed the way Python computes them.  A Python *)
(* value is a record [kind, chars]: kind "str" carries its characters,     *)
(* kind "mock" is a unittest.mock.MagicMock.                               *)
(***************************************************************************)
EXTENDS Integers, Sequences, FiniteSets, TLC

\* ------------------------------------------------------------------ bounds
MaxLen == 3
MaxField == 1
MaxOps == 2
MaxModules == 2

\* ---------------------------------------------------------- Python values
NoExc == "none"
NoName == "<unbound>"

Digits == {"0", "1", "2", "3", "4", "5", "6", "7", "8", "9"}

DigitValue(c) ==
    CASE c = "0" -> 0 [] c = "1" -> 1 [] c = "2" -> 2 [] c = "3" -> 3
      [] c = "4" -> 4 [] c = "5" -> 5 [] c = "6" -> 6 [] c = "7" -> 7
      [] c = "8" -> 8 [] c = "9" -> 9

MockValue == [kind |-> "mock", chars |-> <<>>]
StrValue(cs) == [kind |-> "str", chars |-> cs]

Return(v) == [exc |-> NoExc, val |-> v]
Raise(e) == [exc |-> e, val |-> 0]

\* str.split(sep) for a one-character separator: "" gives one empty field
RECURSIVE split(_, _)
split(s, sep) ==
    IF \A i \in 1..Len(s) : s[i] # sep
    THEN <<s>>
    ELSE LET k == CHOOSE i \in 1..Len(s) :
                      s[i] = sep /\ \A j \in 1..(i - 1) : s[j] # sep
         IN <<SubSeq(s, 1, k - 1)>> \o split(SubSeq(s, k + 1, Len(s)), sep)

\* list(range(a, b))
py_range(a, b) == [i \in 1..(IF b > a THEN b - a ELSE 0) |-> a + i - 1]

\* int(x, 10): an explicit base makes int() reject every non-string
py_int_explicit_base(v) ==
    IF v.kind = "mock" THEN Raise("TypeError")
    ELSE IF Len(v.chars) = 1 /\ v.chars[1] \in Digits
         THEN Return(DigitValue(v.chars[1]))
         ELSE Raise("ValueError")

\* int(x) of a one-character string, or of a MagicMock (__int__ gives 1)
py_int(v) ==
    IF v.kind = "mock" THEN Return(1)
    ELSE IF Len(v.chars) = 1 /\ v.chars[1] \in Digits
         THEN Return(DigitValue(v.chars[1]))
         ELSE Raise("ValueError")

\* --------------------------------------------------------- adapter traffic
W(cmd) == [op |-> "write", msg |-> cmd]
R == [op |-> "read", msg |-> ""]
Bind == [op |-> "bind", msg |-> ""]
Creator == [op |-> "creator", msg |-> ""]

\* Instrument.measurement(get_command, docs): reading the attribute writes
\* the query, reads the reply and returns it (no cast configured)
measurement(get_command, adapter) ==
    [trace |-> <<W(get_command), R>>, val |-> adapter.reply]

id(adapter) == measurement("*IDN?", adapter)
status(adapter) == measurement("*ESR?", adapter)

\* keywords the simulated VISA transport consumes
AdapterKeywords == {"visa_library"}

\* Instrument.__init__(adapter, name, **kwargs): a resource string is turned
\* into an adapter built with the extra keywords, which rejects the ones it
\* does not know; an adapter instance is taken as it is
Instrument_init(args) ==
    IF args.adapter.kind = "resource" /\ args.kwargs \ AdapterKeywords # {}
    THEN [exc |-> "ValueError",
          excArg |-> CHOOSE k \in args.kwargs \ AdapterKeywords : TRUE,
          name |-> NoName, trace |-> <<>>]
    ELSE [exc |-> NoExc, excArg |-> "", name |-> args.name, trace |-> <<Bind>>]

\* ------------------------------------------------------------- TBS2XXX
DefaultName == "TBS-2XXX"

super_args_default_name(adapter, name, kwargs) ==
    [adapter |-> adapter, name |-> DefaultName, kwargs |-> kwargs]

super_args_no_kwargs(adapter, name, kwargs) ==
    [adapter |-> adapter, name |-> name, kwargs |-> {}]

\* super().__init__(adapter, name, **kwargs)
super_args(adapter, name, kwargs) ==
    [adapter |-> adapter, name |-> name, kwargs |-> kwargs]

reset_io == <<W("*RST")>>
auto_setup_io == <<W("AUTOS EXEC;")>>

reset_called == reset_io

\* self.reset : the bound method is looked up and dropped, nothing is sent
reset_reference == <<>>

\* id_list[0][-1]: the first field instead of the second
n_channels_char_first_field(idv) ==
    IF idv.kind = "mock" THEN Return(MockValue)
    ELSE LET id_list == split(idv.chars, ",")
         IN IF Len(id_list[1]) = 0 THEN Raise("IndexError")
            ELSE Return(StrValue(<<id_list[1][Len(id_list[1])]>>))

\* id_list[1][-1] on the result of self.id.split(',')
n_channels_char(idv) ==
    IF idv.kind = "mock" THEN Return(MockValue)
    ELSE LET id_list == split(idv.chars, ",")
         IN IF Len(id_list) < 2 THEN Raise("IndexError")
            ELSE IF Len(id_list[2]) = 0 THEN Raise("IndexError")
            ELSE Return(StrValue(<<id_list[2][Len(id_list[2])]>>))

find_n_channels_two_queries(adapter) ==
    LET q == id(adapter)
        c == n_channels_char(q.val)
        r == IF c.exc # NoExc THEN c ELSE py_int(c.val)
    IN [exc |-> r.exc, val |-> r.val, trace |-> q.trace \o id(adapter).trace]

\* TBS2XXX.__find_n_channels
find_n_channels(adapter) ==
    LET q == id(adapter)
        c == n_channels_char(q.val)
        r == IF c.exc # NoExc THEN c ELSE py_int(c.val)
    IN [exc |-> r.exc, val |-> r.val, trace |-> q.trace]

\* TBS2XXX.__init__
TBS2XXX_init(adapter, name, kwargs) ==
    LET sup == Instrument_init(super_args(adapter, name, kwargs))
    IN IF sup.exc # NoExc
       THEN [pc |-> "raised", exc |-> sup.exc, excArg |-> sup.excArg,
             name |-> NoName, n |-> 0, channels |-> <<>>, trace |-> sup.trace]
       ELSE LET f == find_n_channels(adapter)
                before == sup.trace \o reset_reference \o f.trace
            IN IF f.exc # NoExc
               THEN [pc |-> "raised", exc |-> f.exc, excArg |-> "",
                     name |-> NoName, n |-> 0, channels |-> <<>>,
                     trace |-> before]
               ELSE [pc |-> "returned", exc |-> NoExc, excArg |-> "",
                     name |-> sup.name, n |-> f.val,
                     channels |-> py_range(1, f.val),
                     trace |-> before \o <<Creator>>]

\* ------------------------------------------------------------------ state
VARIABLES
    adapter,        \* the adapter handed to the constructor: [kind, reply]
    ctorArgs,       \* name and keyword arguments of the construction
    pc,             \* "none" before construction, then "returned" or "raised"
    name,           \* Instrument.name of the constructed device
    exc,            \* exception type that left the constructor
    excArg,         \* keyword named by the exception message
    nChannels,      \* value returned by __find_n_channels
    channels,       \* indices handed to MultiChannelCreator
    ctorTrace,      \* what the constructor did, in order
    log,            \* everything sent to or read from the adapter, in order
    lastOp,         \* the last operation applied to the device
    nOps,           \* operations applied after construction
    modules,        \* files found by rglob, with the outcome of their import
    idx,            \* position of find_devices_in_module in modules
    devices,        \* set of Instrument subclasses found
    channel_classes,\* set of Channel subclasses found
    properties,     \* (class, property name, docstring) triples
    discPc,         \* "idle", "walking", "returned" or "raised"
    discExc,        \* exception that left find_devices_in_module
    simInstalled,   \* importlib.util.find_spec("pyvisa_sim") found it
    lastTest        \* the last parametrized test case run and its outcome

deviceVars == <<adapter, ctorArgs, pc, name, exc, excArg, nChannels, channels,
                ctorTrace, log, lastOp, nOps>>
harnessVars == <<modules, idx, devices, channel_classes, properties, discPc,
                 discExc, simInstalled, lastTest>>
vars == <<adapter, ctorArgs, pc, name, exc, excArg, nChannels, channels,
          ctorTrace, log, lastOp, nOps, modules, idx, devices,
          channel_classes, properties, discPc, discExc, simInstalled,
          lastTest>>

\* ----------------------------------------------------------------- inputs
Alphabet == {",", "B", "4", " "}
FieldAlphabet == {"T", "2"}

SeqsUpTo(S, n) == UNION {[1..k -> S] : k \in 0..n}

ExampleReply ==
    <<"T", "E", "K", "T", "R", "O", "N", "I", "X", ",", "T", "B", "S", "2",
      "2", "0", "4", "B", ",", "C", "0", "1", "2", "3", "4", "5", ",", "C",
      "F", ":", "9", "1", ".", "1", "C", "T", " ", "F", "V", ":", "1", ".",
      "0", "4">>

\* replies "<vendor>,<model><D>B,<serial>,<fw>"
IdnReplies ==
    {v \o <<",">> \o m \o <<d, "B", ",">> \o s \o <<",">> \o f :
        v \in SeqsUpTo({"T"}, MaxField), m \in SeqsUpTo(FieldAlphabet, MaxField),
        d \in Digits, s \in SeqsUpTo({"T"}, MaxField),
        f \in SeqsUpTo({"T"}, MaxField)}

Replies == SeqsUpTo(Alphabet, MaxLen) \cup IdnReplies \cup {ExampleReply}

MockAdapter == [kind |-> "mock", reply |-> MockValue]

Adapters ==
    {MockAdapter}
    \cup {[kind |-> k, reply |-> StrValue(cs)] :
            k \in {"protocol", "resource"}, cs \in Replies}

Names == {DefaultName, "Name_Test"}
KwargSets == SUBSET {"visa_library", "kwarg_test"}

NoTest == [test |-> "none", cls |-> "", prop |-> "", outcome |-> ""]

\* --------------------------------------------------------- device actions
SetInstance(r, ad, nm, kw) ==
    /\ adapter' = ad
    /\ ctorArgs' = [name |-> nm, kwargs |-> kw]
    /\ pc' = r.pc
    /\ name' = r.name
    /\ exc' = r.exc
    /\ excArg' = r.excArg
    /\ nChannels' = r.n
    /\ channels' = r.channels
    /\ ctorTrace' = r.trace
    /\ log' = r.trace
    /\ lastOp' = "init"
    /\ nOps' = 0

NoInstance(ad) ==
    /\ adapter = ad
    /\ ctorArgs = [name |-> DefaultName, kwargs |-> {}]
    /\ pc = "none"
    /\ name = NoName
    /\ exc = NoExc
    /\ excArg = ""
    /\ nChannels = 0
    /\ channels = <<>>
    /\ ctorTrace = <<>>
    /\ log = <<>>
    /\ lastOp = "none"
    /\ nOps = 0

HarnessIdle ==
    /\ modules = <<>>
    /\ idx = 1
    /\ devices = {}
    /\ channel_classes = {}
    /\ properties = {}
    /\ discPc = "idle"
    /\ discExc = NoExc
    /\ simInstalled = FALSE
    /\ lastTest = NoTest

\* TBS2XXX(adapter, name, **kwargs)
Construct ==
    /\ pc = "none"
    /\ \E nm \in Names, kw \in KwargSets :
          SetInstance(TBS2XXX_init(adapter, nm, kw), adapter, nm, kw)
    /\ UNCHANGED harnessVars

Apply(op, io) ==
    /\ pc = "returned"
    /\ nOps < MaxOps
    /\ log' = log \o io
    /\ lastOp' = op
    /\ nOps' = nOps + 1
    /\ UNCHANGED <<adapter, ctorArgs, pc, name, exc, excArg, nChannels,
                   channels, ctorTrace>>
    /\ UNCHANGED harnessVars

\* TBS2XXX.reset()
Reset == Apply("reset", reset_io)

\* TBS2XXX.auto_setup()
AutoSetup == Apply("auto_setup", auto_setup_io)

\* reading TBS2XXX.id
ReadId == Apply("id", id(adapter).trace)

\* reading TBS2XXX.status
ReadStatus == Apply("status", status(adapter).trace)

InitDevice ==
    /\ \E ad \in Adapters : NoInstance(ad)
    /\ HarnessIdle

NextDevice == Construct \/ Reset \/ AutoSetup \/ ReadId \/ ReadStatus

SpecDevice == InitDevice /\ [][NextDevice]_vars

\* ---------------------------------------------- discovery and test harness
ImportOk == "ok"
ImportErrors == {"ModuleNotFoundError", "ImportError", "OSError",
                 "FileNotFoundError", "SyntaxError"}

\* the exception classes' base class
ExcBase(e) ==
    CASE e = "ModuleNotFoundError" -> "ImportError"
      [] e = "FileNotFoundError" -> "OSError"
      [] OTHER -> "Exception"

\* isinstance(e, cls), which is what an except clause tests
IsInstance(e, cls) == e = cls \/ ExcBase(e) = cls

swallowed_any_import_error(e) ==
    IsInstance(e, "ImportError") \/ IsInstance(e, "OSError")

\* except ModuleNotFoundError: pass / except OSError: pass
swallowed(e) ==
    IsInstance(e, "ModuleNotFoundError") \/ IsInstance(e, "OSError")

ModuleNames == {"tektronix.tbs2000b", "keithley.keithley2700",
                "agilent.agilent4156", "ni.virtualbench"}

\* dir(submodule)
ModuleDir(m) ==
    CASE m = "tektronix.tbs2000b" ->
            {"__name__", "Instrument", "Channel", "MeasurementChannel",
             "TBS2XXX"}
      [] m = "keithley.keithley2700" -> {"__name__", "Instrument",
                                         "Keithley2700", "log"}
      [] m = "agilent.agilent4156" -> {"__name__", "Instrument", "SMU"}
      [] OTHER -> {"__name__"}

\* issubclass(d, Instrument), issubclass(d, Channel); "log" is no class
InstrumentClasses == {"Instrument", "TBS2XXX", "Keithley2700", "SMU"}
ChannelClasses == {"Channel", "MeasurementChannel"}
IsDunder(dev) == dev = "__name__"

FoundDevices(m) == {d \in ModuleDir(m) : ~IsDunder(d) /\ d \in InstrumentClasses}
FoundChannels(m) ==
    {d \in ModuleDir(m) :
        ~IsDunder(d) /\ d \notin InstrumentClasses /\ d \in ChannelClasses}

proper_adapters == {}
need_init_communication ==
    {"SwissArmyFake", "FakeInstrument", "ThorlabsPM100USB", "Keithley2700",
     "TC038", "Agilent34450A", "AWG401x_AWG", "AWG401x_AFG", "VARX",
     "HP8116A", "IBeamSmart", "ANC300Controller"}
channel_as_instrument_subclass ==
    {"SMU", "VMU", "VSU", "VARX", "VAR1", "VAR2", "VARD"}
\* the entries of the list that name a class of ModuleDir
grandfathered_docstring_instruments == {"Keithley2700", "SMU", "VMU", "VSU"}

IdDoc ==
    <<"G", "e", "t", " ", "t", "h", "e", " ", "i", "n", "s", "t", "r", "u",
      "m", "e", "n", "t", " ", "V", "I", "S", "A", " ", "I", "D", " ", "n",
      "u", "m", "b", "e", "r", ".">>
StatusDoc ==
    <<"F", "e", "t", "c", "h", "e", "s", " ", "t", "h", "e", " ", "c", "o",
      "n", "t", "e", "n", "t", "s", " ", "o", "f", " ", "t", "h", "e", " ",
      "e", "v", "e", "n", "t", " ", "s", "t", "a", "t", "u", "s", " ", "r",
      "e", "g", "i", "s", "t", "e", "r", ".">>
UnreadDoc == <<>>

\* the properties a class declares: (class, property name, docstring)
DeclaredProperties(cls) ==
    CASE cls = "TBS2XXX" ->
            {[cls |-> cls, prop |-> "id", doc |-> IdDoc],
             [cls |-> cls, prop |-> "status", doc |-> StatusDoc]}
      [] cls \in {"Keithley2700", "SMU"} ->
            {[cls |-> cls, prop |-> "declared", doc |-> UnreadDoc]}
      [] OTHER -> {}

Whitespace == {" "}

\* prop.__doc__.split(maxsplit=1)[0]
RECURSIVE first_word(_)
first_word(doc) ==
    IF Len(doc) = 0 THEN Raise("IndexError")
    ELSE IF doc[1] \in Whitespace THEN first_word(Tail(doc))
    ELSE LET ends == {i \in 1..Len(doc) : doc[i] \in Whitespace}
             stop == IF ends = {} THEN Len(doc) + 1
                     ELSE CHOOSE i \in ends : \A j \in ends : i <= j
         IN Return(SubSeq(doc, 1, stop - 1))

Control == <<"C", "o", "n", "t", "r", "o", "l">>
Measure == <<"M", "e", "a", "s", "u", "r", "e">>
Set == <<"S", "e", "t">>
Get == <<"G", "e", "t">>
ConventionWords == {Control, Measure, Set, Get}

ModuleRecords == [name : ModuleNames, outcome : {ImportOk} \cup ImportErrors]

\* Path(base_dir).rglob("*.py"): each file once, in the order of the walk
FileWalks ==
    {w \in SeqsUpTo(ModuleRecords, MaxModules) :
        \A i, j \in 1..Len(w) : i # j => w[i].name # w[j].name}

SimReplies == {StrValue(<<>>), StrValue(<<",", "4">>)}

\* cls(adapter, name, **kwargs) for the classes the tests construct
class_init(cls, ad, nm, kw) ==
    IF cls = "TBS2XXX" THEN TBS2XXX_init(ad, nm, kw)
    ELSE LET sup == Instrument_init([adapter |-> ad, name |-> nm, kwargs |-> kw])
         IN [pc |-> IF sup.exc = NoExc THEN "returned" ELSE "raised",
             exc |-> sup.exc, excArg |-> sup.excArg, name |-> sup.name,
             n |-> 0, channels |-> <<>>, trace |-> sup.trace]

ClassDefaultName(cls) == IF cls = "TBS2XXX" THEN DefaultName ELSE "Instrument"

ClearInstance ==
    /\ adapter' = MockAdapter
    /\ ctorArgs' = [name |-> DefaultName, kwargs |-> {}]
    /\ pc' = "none"
    /\ name' = NoName
    /\ exc' = NoExc
    /\ excArg' = ""
    /\ nChannels' = 0
    /\ channels' = <<>>
    /\ ctorTrace' = <<>>
    /\ log' = <<>>
    /\ lastOp' = "none"
    /\ nOps' = 0

\* one iteration of the loop of find_devices_in_module
FindDevicesStep ==
    /\ discPc = "walking"
    /\ idx <= Len(modules)
    /\ LET m == modules[idx]
       IN IF m.outcome = ImportOk
          THEN /\ devices' = devices \cup FoundDevices(m.name)
               /\ channel_classes' = channel_classes \cup FoundChannels(m.name)
               /\ idx' = idx + 1
               /\ UNCHANGED <<discPc, discExc>>
          ELSE IF swallowed(m.outcome)
          THEN /\ idx' = idx + 1
               /\ UNCHANGED <<devices, channel_classes, discPc, discExc>>
          ELSE /\ discPc' = "raised"
               /\ discExc' = m.outcome
               /\ UNCHANGED <<devices, channel_classes, idx>>
    /\ UNCHANGED <<modules, properties, simInstalled, lastTest>>
    /\ UNCHANGED deviceVars

\* return devices, channels; then the module collects all properties
FindDevicesReturn ==
    /\ discPc = "walking"
    /\ idx > Len(modules)
    /\ discPc' = "returned"
    /\ properties' = UNION {DeclaredProperties(c) : c \in devices \cup channel_classes}
    /\ UNCHANGED <<modules, idx, devices, channel_classes, discExc,
                   simInstalled, lastTest>>
    /\ UNCHANGED deviceVars

Ran(test, cls, prop, outcome) ==
    /\ lastTest' = [test |-> test, cls |-> cls, prop |-> prop,
                    outcome |-> outcome]
    /\ UNCHANGED <<modules, idx, devices, channel_classes, properties,
                   discPc, discExc, simInstalled>>

\* test_adapter_arg(cls)
TestAdapterArg ==
    /\ discPc = "returned"
    /\ \E cls \in devices :
          IF \/ cls \in proper_adapters
             \/ cls \in need_init_communication
             \/ cls \in channel_as_instrument_subclass
             \/ cls = "Instrument"
          THEN ClearInstance /\ Ran("test_adapter_arg", cls, "", "skipped")
          ELSE LET nm == ClassDefaultName(cls)
                   r == class_init(cls, MockAdapter, nm, {})
               IN /\ SetInstance(r, MockAdapter, nm, {})
                  /\ Ran("test_adapter_arg", cls, "",
                         IF r.pc = "returned" THEN "passed" ELSE "failed")

\* test_name_argument(cls)
TestNameArgument ==
    /\ discPc = "returned"
    /\ \E cls \in devices :
          IF \/ cls \in proper_adapters \cup need_init_communication
             \/ cls \in channel_as_instrument_subclass
          THEN ClearInstance /\ Ran("test_name_argument", cls, "", "skipped")
          ELSE LET r == class_init(cls, MockAdapter, "Name_Test", {})
               IN /\ SetInstance(r, MockAdapter, "Name_Test", {})
                  /\ Ran("test_name_argument", cls, "",
                         IF r.pc = "returned" /\ r.name = "Name_Test"
                         THEN "passed" ELSE "failed")

\* test_kwargs_to_adapter(cls)
TestKwargsToAdapter ==
    /\ discPc = "returned"
    /\ \E cls \in devices :
          IF \/ ~simInstalled
             \/ cls \in proper_adapters \cup need_init_communication
             \/ cls \in channel_as_instrument_subclass
             \/ cls = "Instrument"
          THEN ClearInstance /\ Ran("test_kwargs_to_adapter", cls, "", "skipped")
          ELSE \E reply \in SimReplies :
               LET ad == [kind |-> "resource", reply |-> reply]
                   nm == ClassDefaultName(cls)
                   kw == {"visa_library", "kwarg_test"}
                   r == class_init(cls, ad, nm, kw)
               IN /\ SetInstance(r, ad, nm, kw)
                  /\ Ran("test_kwargs_to_adapter", cls, "",
                         IF /\ r.pc = "raised"
                            /\ r.exc = "ValueError"
                            /\ r.excArg = "kwarg_test"
                         THEN "passed" ELSE "failed")

\* test_property_docstrings(prop_set)
TestPropertyDocstrings ==
    /\ discPc = "returned"
    /\ \E p \in properties :
          /\ IF p.cls \in grandfathered_docstring_instruments
             THEN Ran("test_property_docstrings", p.cls, p.prop, "skipped")
             ELSE LET start == first_word(p.doc)
                  IN Ran("test_property_docstrings", p.cls, p.prop,
                         IF start.exc = NoExc /\ start.val \in ConventionWords
                         THEN "passed" ELSE "failed")
          /\ ClearInstance

InitHarness ==
    /\ NoInstance(MockAdapter)
    /\ modules \in FileWalks
    /\ idx = 1
    /\ devices = {}
    /\ channel_classes = {}
    /\ properties = {}
    /\ discPc = "walking"
    /\ discExc = NoExc
    /\ simInstalled \in BOOLEAN
    /\ lastTest = NoTest

NextHarness ==
    \/ FindDevicesStep
    \/ FindDevicesReturn
    \/ TestAdapterArg
    \/ TestNameArgument
    \/ TestKwargsToAdapter
    \/ TestPropertyDocstrings

SpecHarness == InitHarness /\ [][NextHarness]_vars

\* ------------------------------------------------------------- properties
Last(s) == s[Len(s)]
Count(s, e) == Cardinality({i \in 1..Len(s) : s[i] = e})

ReplyIsStr == adapter.reply.kind = "str"
ReplyFields == split(adapter.reply.chars, ",")

\* the identification query was sent by the constructor
DiscoveryRan == pc # "none" /\ Count(ctorTrace, W("*IDN?")) > 0

\* the reply reads "<vendor>,<model><D>B,<serial>,<fw>"
IsIdnForm ==
    /\ ReplyIsStr
    /\ Len(ReplyFields) = 4
    /\ Len(ReplyFields[2]) >= 2
    /\ Last(ReplyFields[2]) = "B"
    /\ ReplyFields[2][Len(ReplyFields[2]) - 1] \in Digits

IdnDigit == ReplyFields[2][Len(ReplyFields[2]) - 1]

\* fewer than two fields, or an empty second field
TooFewFields == Len(ReplyFields) < 2 \/ Len(ReplyFields[2]) = 0

\* C3's case: no second field, or a second field without a trailing digit
MalformedReply ==
    /\ ReplyIsStr
    /\ (TooFewFields \/ Last(ReplyFields[2]) \notin Digits)

\* C1: for every reply "<vendor>,<model><D>B,<serial>,<fw>" with D a decimal
\* digit, channel-count discovery returns D as an integer.
C1_DiscoveryReturnsDigit ==
    (IsIdnForm /\ DiscoveryRan) =>
        (pc = "returned" /\ nChannels = DigitValue(IdnDigit))

\* C2: a construction that discovered N channels produces the channels with
\* indices 1..N in order; the reply "TEKTRONIX,TBS2204B,..." gives 4 channels.
C2_ChannelsOneToN ==
    /\ pc = "returned" => channels = [i \in 1..nChannels |-> i]
    /\ (ReplyIsStr /\ adapter.reply.chars = ExampleReply /\ DiscoveryRan) =>
          (pc = "returned" /\ nChannels = 4 /\ channels = <<1, 2, 3, 4>>)

\* C3 as stated: on a reply with fewer than two fields or a second field with
\* no trailing digit, discovery fails with a ValueError/ParseError, the
\* failure leaves the constructor and no device is returned.
C3_FailsWithValueError ==
    (MalformedReply /\ DiscoveryRan) =>
        (pc = "raised" /\ exc \in {"ValueError", "ParseError"} /\ name = NoName)

\* C3 amended: on such a reply discovery fails, with an IndexError when there
\* are fewer than two fields or the second field is empty and with a
\* ValueError when the second field ends in a non-digit; the failure leaves
\* the constructor and no device is returned.
C3_FailsWithIndexOrValueError ==
    (MalformedReply /\ DiscoveryRan) =>
        /\ pc = "raised"
        /\ exc = (IF TooFewFields THEN "IndexError" ELSE "ValueError")
        /\ name = NoName
        /\ channels = <<>>

C3_Witness ==
    /\ MalformedReply /\ DiscoveryRan
    /\ TooFewFields
    /\ pc = "raised" /\ exc = "IndexError"

\* C9: every construction sends at most one *IDN? query, and a construction
\* that returns sent exactly one, after the base device was bound to its
\* adapter and before the channel creator was built.
C9_OneIdnQuery ==
    LET queries == {i \in 1..Len(ctorTrace) : ctorTrace[i] = W("*IDN?")}
        binds == {i \in 1..Len(ctorTrace) : ctorTrace[i] = Bind}
        creators == {i \in 1..Len(ctorTrace) : ctorTrace[i] = Creator}
    IN /\ Cardinality(queries) <= 1
       /\ pc = "returned" =>
            /\ Cardinality(queries) = 1
            /\ binds # {}
            /\ creators # {}
            /\ \A q \in queries :
                  /\ \A b \in binds : b < q
                  /\ \A c \in creators : q < c

C9_Witness ==
    /\ pc = "returned"
    /\ adapter.kind = "protocol"
    /\ nChannels = 4
    /\ Count(ctorTrace, W("*IDN?")) = 1

\* C10: the constructor writes nothing but the *IDN? query, so no *RST; a
\* *RST is sent only by reset(), which sends exactly "*RST" and reads nothing.
C10_ResetOnlyOnRequest ==
    /\ [](\A i \in 1..Len(ctorTrace) :
             ctorTrace[i].op = "write" => ctorTrace[i].msg = "*IDN?")
    /\ [][(lastOp' = "reset" /\ nOps' # nOps) =>
             log' = Append(log, W("*RST"))]_vars
    /\ [][Count(log', W("*RST")) # Count(log, W("*RST")) =>
             (lastOp' = "reset" /\ nOps' = nOps + 1)]_vars

C10_Witness ==
    /\ pc = "returned"
    /\ lastOp = "reset"
    /\ Count(ctorTrace, W("*RST")) = 0
    /\ Last(log) = W("*RST")

\* C4: every property of a class outside the docstring allow-list has a
\* docstring whose first word is Control, Measure, Set or Get, so its
\* docstring test passes; this covers TBS2XXX.id and TBS2XXX.status.
C4_DocstringsFollowConvention ==
    /\ \A p \in properties :
          p.cls \notin grandfathered_docstring_instruments =>
             /\ first_word(p.doc).exc = NoExc
             /\ first_word(p.doc).val \in ConventionWords
    /\ (lastTest.test = "test_property_docstrings"
          /\ lastTest.outcome # "skipped") => lastTest.outcome = "passed"

\* C5: constructing a device class that the adapter-argument test does not
\* skip, with a MagicMock adapter, returns without raising.
C5_AdapterArgConstructs ==
    (lastTest.test = "test_adapter_arg" /\ lastTest.outcome # "skipped") =>
        (lastTest.outcome = "passed" /\ pc = "returned" /\ exc = NoExc)

C5_Witness ==
    /\ lastTest.test = "test_adapter_arg"
    /\ lastTest.cls = "TBS2XXX"
    /\ adapter.kind = "mock"
    /\ pc = "returned"
    /\ Count(ctorTrace, W("*IDN?")) = 1

\* C6: constructing a device class that the name test does not skip, with a
\* MagicMock adapter and name="Name_Test", returns a device whose name is
\* "Name_Test".
C6_NameReadsBack ==
    (lastTest.test = "test_name_argument" /\ lastTest.outcome # "skipped") =>
        (lastTest.outcome = "passed" /\ pc = "returned" /\ name = "Name_Test")

C6_Witness ==
    /\ lastTest.test = "test_name_argument"
    /\ lastTest.cls = "TBS2XXX"
    /\ ctorArgs.name = "Name_Test"
    /\ pc = "returned"
    /\ name = "Name_Test"

\* C7: with the simulated backend installed, constructing a device class the
\* keyword test does not skip, on a simulated resource with kwarg_test=True,
\* fails with a ValueError naming kwarg_test, before anything is sent.
C7_UnknownKeywordRejected ==
    (lastTest.test = "test_kwargs_to_adapter" /\ lastTest.outcome # "skipped") =>
        /\ simInstalled
        /\ lastTest.outcome = "passed"
        /\ pc = "raised"
        /\ exc = "ValueError"
        /\ excArg = "kwarg_test"
        /\ ctorTrace = <<>>

C7_Witness ==
    /\ lastTest.test = "test_kwargs_to_adapter"
    /\ lastTest.cls = "TBS2XXX"
    /\ "kwarg_test" \in ctorArgs.kwargs
    /\ adapter.kind = "resource"
    /\ pc = "raised"
    /\ exc = "ValueError"

\* the modules the walk has gone past
Passed == 1..(idx - 1)

\* C8 as stated: an import that fails with ModuleNotFoundError is skipped and
\* the walk goes on; every other import failure leaves find_devices_in_module.
C8_OnlyModuleNotFoundSwallowed ==
    /\ \A i \in Passed :
          \/ modules[i].outcome = ImportOk
          \/ IsInstance(modules[i].outcome, "ModuleNotFoundError")
    /\ discPc = "raised" =>
          /\ discExc = modules[idx].outcome
          /\ ~IsInstance(discExc, "ModuleNotFoundError")

\* C8 amended: an import that fails with ModuleNotFoundError or with OSError
\* (subclasses included) is skipped and the walk goes on; every other import
\* failure leaves find_devices_in_module.
C8_ModuleNotFoundAndOSErrorSwallowed ==
    /\ \A i \in Passed :
          \/ modules[i].outcome = ImportOk
          \/ IsInstance(modules[i].outcome, "ModuleNotFoundError")
          \/ IsInstance(modules[i].outcome, "OSError")
    /\ discPc = "raised" =>
          /\ idx <= Len(modules)
          /\ discExc = modules[idx].outcome
          /\ discExc # ImportOk
          /\ ~IsInstance(discExc, "ModuleNotFoundError")
          /\ ~IsInstance(discExc, "OSError")
    /\ discPc = "returned" => idx = Len(modules) + 1

C8_Witness ==
    /\ Len(modules) = 2
    /\ modules[1].outcome = "ModuleNotFoundError"
    /\ idx = 2
    /\ discPc = "raised"
    /\ discExc = "ImportError"

====
